---- MODULE Spec2Model ----
(***************************************************************************)
(* dotman: a declarative dotfile manager.  The model covers the path       *)
(* resolver (src/utils.rs), the condition evaluator and the profile filter *)
(* (src/config.rs) and the reconciler install / remove / status            *)
(* (src/lib.rs), run against a small filesystem with directories, plain    *)
(* files and symbolic links.                                               *)
(*                                                                         *)
(* Strings are sequences of one-character strings; a filesystem node is    *)
(* named by the sequence of its path components.                           *)
(***************************************************************************)
EXTENDS Integers, Sequences, FiniteSets, TLC

VARIABLES
    fs,         \* the filesystem: node path -> entry
    config,     \* the DotmanConfig the Dotman was built with
    home,       \* what dirs::home_dir() returns: [some, v]
    host,       \* the host: [os, lookup] (lookup: the hostname command's output)
    op,         \* the operation in progress: "none", "install", "remove", "status"
    pc,         \* where it is: "idle", "links", "actions"
    pos,        \* position in the effective link / action list (1-based)
    out,        \* the records the operation in progress has emitted
    fs0,        \* the filesystem when the operation in progress started
    hist,       \* the operations that have returned, oldest first
    fn          \* the pure-function harness: the inputs drawn and the results

vars == <<fs, config, home, host, op, pc, pos, out, fs0, hist, fn>>

(***************************************************************************)
(* Bounds of the model.                                                    *)
(***************************************************************************)
\* operations run one after the other in a behaviour
MaxRuns == 2
\* symbolic links followed in one path walk before the walk fails (ELOOP)
MaxHops == 3
\* length of the strings drawn for the tilde expanders
MaxLen == 4

(***************************************************************************)
(* Strings.                                                                *)
(***************************************************************************)
None == [some |-> FALSE, v |-> <<>>]
Some(x) == [some |-> TRUE, v |-> x]

Last(s) == s[Len(s)]
Front(s) == SubSeq(s, 1, Len(s) - 1)

\* str::starts_with
starts_with(s, p) == Len(s) >= Len(p) /\ SubSeq(s, 1, Len(p)) = p

\* str::strip_prefix: Some(rest) when s starts with p
strip_prefix(s, p) ==
    IF starts_with(s, p) THEN Some(SubSeq(s, Len(p) + 1, Len(s))) ELSE None

\* str::trim_start_matches(c): every leading c removed
RECURSIVE trim_start_matches(_, _)
trim_start_matches(s, c) ==
    IF s # <<>> /\ Head(s) = c THEN trim_start_matches(Tail(s), c) ELSE s

Whitespace == {" ", "\n"}

RECURSIVE trim_start(_)
trim_start(s) ==
    IF s # <<>> /\ Head(s) \in Whitespace THEN trim_start(Tail(s)) ELSE s

RECURSIVE trim_end(_)
trim_end(s) ==
    IF s # <<>> /\ Last(s) \in Whitespace THEN trim_end(Front(s)) ELSE s

\* str::trim
trim(s) == trim_end(trim_start(s))

LowerOf(c) ==
    CASE c = "Y" -> "y"
      [] c = "E" -> "e"
      [] c = "S" -> "s"
      [] c = "N" -> "n"
      [] OTHER -> c

\* str::to_lowercase
to_lowercase(s) == [i \in 1..Len(s) |-> LowerOf(s[i])]

(***************************************************************************)
(* Paths (std::path).                                                      *)
(***************************************************************************)
\* Path::is_absolute (unix): the path starts at the root
is_absolute(p) == p # <<>> /\ Head(p) = "/"

\* PathBuf::join / push: an absolute argument replaces the base, otherwise a
\* separator is added unless the base already ends with one
join(base, rel) ==
    IF is_absolute(rel) THEN rel
    ELSE IF base # <<>> /\ Last(base) # "/" THEN base \o <<"/">> \o rel
    ELSE base \o rel

\* Path::components: the names between separators; repeated separators, a
\* trailing separator and "." name nothing
RECURSIVE SplitNames(_, _)
SplitNames(p, cur) ==
    IF p = <<>> THEN (IF cur = <<>> THEN <<>> ELSE <<cur>>)
    ELSE IF Head(p) = "/"
         THEN (IF cur = <<>> THEN <<>> ELSE <<cur>>) \o SplitNames(Tail(p), <<>>)
         ELSE SplitNames(Tail(p), Append(cur, Head(p)))

components(p) == SelectSeq(SplitNames(p, <<>>), LAMBDA n : n # <<".">>)

\* PathBuf == PathBuf: component-wise, with the root
path_eq(p, q) == is_absolute(p) = is_absolute(q) /\ components(p) = components(q)

(***************************************************************************)
(* The process environment.                                                *)
(***************************************************************************)
HomeDir == <<"/", "h">>
\* std::env::current_dir()
current_dir == <<"/", "h">>

(***************************************************************************)
(* Path Resolver.                                                          *)
(***************************************************************************)
Ok(x) == [ok |-> TRUE, v |-> x]
Err(e) == [ok |-> FALSE, v |-> e]

\* ExpandTilde::expand_tilde_path (the link-path expander)
expand_tilde_path(h, p) ==
    IF starts_with(p, <<"~">>)
    THEN IF h.some
         THEN Ok(join(h.v, trim_start_matches(strip_prefix(p, <<"~">>).v, "/")))
         ELSE Err("Home directory not found")
    ELSE Ok(p)

\* Absolute::absolute
absolute(p) == IF is_absolute(p) THEN Ok(p) ELSE Ok(join(current_dir, p))

\* config.rs expand_tilde (the file_exists expander)
expand_tilde(h, p) ==
    IF strip_prefix(p, <<"~", "/">>).some /\ h.some
    THEN h.v \o <<"/">> \o strip_prefix(p, <<"~", "/">>).v
    ELSE p

\* link.source.expand_tilde_path()?.absolute()?
resolve(h, p) ==
    IF expand_tilde_path(h, p).ok THEN absolute(expand_tilde_path(h, p).v)
    ELSE expand_tilde_path(h, p)

(***************************************************************************)
(* The filesystem.  A node is named by its components (<<"h", "t">> is     *)
(* /h/t); the root is a directory.  Nodes outside the universe are absent. *)
(***************************************************************************)
Names == {<<"s">>, <<"t">>, <<"u">>}
Child == <<"x">>
HomeNode == <<<<"h">>>>
Nodes ==
    {HomeNode}
        \cup {Append(HomeNode, n) : n \in Names}
        \cup {HomeNode \o <<n, Child>> : n \in Names}

Absent == [kind |-> "absent", dest |-> <<>>]
File == [kind |-> "file", dest |-> <<>>]
Dir == [kind |-> "dir", dest |-> <<>>]
Symlink(d) == [kind |-> "symlink", dest |-> d]

\* the entry stored at a node
EntryAt(f, n) ==
    IF n = <<>> THEN Dir ELSE IF n \in Nodes THEN f[n] ELSE Absent

\* no node: the walk failed (ENOENT, ENOTDIR, ELOOP)
NoNode == <<<<>>>>

\* The kernel's path walk from directory node cur over the names in rest,
\* following every symbolic link it meets: the node reached, or NoNode.
RECURSIVE Walk(_, _, _, _)
Walk(f, cur, rest, hops) ==
    IF rest = <<>> THEN cur
    ELSE LET nxt == Append(cur, Head(rest))
             e == EntryAt(f, nxt)
         IN CASE e.kind = "absent" -> NoNode
              [] e.kind = "file" -> IF Len(rest) = 1 THEN nxt ELSE NoNode
              [] e.kind = "dir" -> Walk(f, nxt, Tail(rest), hops)
              [] OTHER ->
                   IF hops = 0 THEN NoNode
                   ELSE Walk(f,
                             IF is_absolute(e.dest) THEN <<>> ELSE cur,
                             components(e.dest) \o Tail(rest),
                             hops - 1)

WalkStart(p) == IF is_absolute(p) THEN <<>> ELSE components(current_dir)

\* stat(2): the node the path resolves to, links followed
Stat(f, p) == Walk(f, WalkStart(p), components(p), MaxHops)

\* lstat(2): the node the path names, its last component not followed
Lstat(f, p) ==
    IF components(p) = <<>> THEN Stat(f, p)
    ELSE LET parent == Walk(f, WalkStart(p), Front(components(p)), MaxHops)
         IN IF parent = NoNode \/ EntryAt(f, parent).kind # "dir" THEN NoNode
            ELSE Append(parent, Last(components(p)))

\* Path::exists: metadata(path).is_ok()
exists(f, p) == Stat(f, p) # NoNode

\* Path::is_dir
is_dir(f, p) == Stat(f, p) # NoNode /\ EntryAt(f, Stat(f, p)).kind = "dir"

\* Path::is_symlink: symlink_metadata(path) is a symlink
is_symlink_follows(f, p) ==
    Stat(f, p) # NoNode /\ EntryAt(f, Stat(f, p)).kind = "symlink"
is_symlink(f, p) == Lstat(f, p) # NoNode /\ EntryAt(f, Lstat(f, p)).kind = "symlink"

\* Path::read_link
read_link(f, p) ==
    IF is_symlink(f, p) THEN Ok(EntryAt(f, Lstat(f, p)).dest) ELSE Err("EINVAL")

IsPrefix(a, b) == Len(a) <= Len(b) /\ SubSeq(b, 1, Len(a)) = a

\* std::fs::remove_file: unlink(2), which removes a file or a symbolic link
remove_file(f, p) ==
    LET n == Lstat(f, p)
    IN IF n = NoNode \/ EntryAt(f, n).kind = "absent" THEN Err("ENOENT")
       ELSE IF EntryAt(f, n).kind = "dir" \/ n \notin Nodes THEN Err("EISDIR")
       ELSE Ok([f EXCEPT ![n] = Absent])

\* std::fs::remove_dir_all: a symbolic link is unlinked, not followed; a
\* directory goes with everything beneath it
remove_dir_all_follows(f, p) ==
    LET n == Stat(f, p)
    IN IF n = NoNode THEN Err("ENOENT")
       ELSE IF EntryAt(f, n).kind = "file" \/ n \notin Nodes THEN Err("ENOTDIR")
       ELSE Ok([m \in Nodes |->
                  IF IsPrefix(n, m) \/ m = Lstat(f, p) THEN Absent ELSE f[m]])
remove_dir_all(f, p) ==
    LET n == Lstat(f, p)
    IN IF n = NoNode \/ EntryAt(f, n).kind = "absent" THEN Err("ENOENT")
       ELSE IF EntryAt(f, n).kind = "symlink" THEN remove_file(f, p)
       ELSE IF EntryAt(f, n).kind = "file" \/ n \notin Nodes THEN Err("ENOTDIR")
       ELSE Ok([m \in Nodes |-> IF IsPrefix(n, m) THEN Absent ELSE f[m]])

\* utils::symlink (unix): symlink(2) stores source verbatim at target
symlink_stores_target(f, source, target) ==
    LET n == Lstat(f, target)
    IN IF n = NoNode THEN Err("ENOENT")
       ELSE IF EntryAt(f, n).kind # "absent" THEN Err("EEXIST")
       ELSE IF n \notin Nodes THEN Err("EACCES")
       ELSE Ok([f EXCEPT ![n] = Symlink(target)])
symlink(f, source, target) ==
    LET n == Lstat(f, target)
    IN IF n = NoNode THEN Err("ENOENT")
       ELSE IF EntryAt(f, n).kind # "absent" THEN Err("EEXIST")
       ELSE IF n \notin Nodes THEN Err("EACCES")
       ELSE Ok([f EXCEPT ![n] = Symlink(source)])

\* what is stored at /h/s
StoredAtS(f) == f[<<<<"h">>, <<"s">>>>]

\* a filesystem is well formed when every entry lies in a directory
WellFormed(f) ==
    \A n \in Nodes :
        f[n].kind # "absent" /\ Len(n) > 1 => f[Front(n)].kind = "dir"

(***************************************************************************)
(* Host Probe.                                                             *)
(***************************************************************************)
NoHost == [some |-> FALSE, v |-> ""]
LookupFailed == [ok |-> FALSE, v |-> ""]

\* utils::get_current_os
get_current_os(hst) == hst.os

\* utils::get_hostname: the command's output, or "unknown" when it cannot run
get_hostname(hst) == IF hst.lookup.ok THEN hst.lookup.v ELSE "unknown"

\* hostname.as_deref(): what install and status hand to the evaluator
hostname_arg(hst) == Some(get_hostname(hst))

\* the interpreters found on PATH, and the commands that exit with status 0
InstalledShells == {"sh", "bash"}
ExitsZero(command) == command = "true"
\* what the command writes on its standard error: `false` is silent, `fail`
\* stands for a command that complains and exits non-zero
StderrOf(command) == IF command = "fail" THEN "oops" ELSE ""

NoShell == [some |-> FALSE, v |-> ""]
NoRun == [some |-> FALSE, v |-> [tag |-> "simple", command |-> "", shell |-> NoShell]]
Simple(c) == [tag |-> "simple", command |-> c, shell |-> NoShell]
Complex(c, sh) == [tag |-> "complex", command |-> c, shell |-> sh]

\* RunCommand::execute: Ok(exit status) or the spawn error
execute(run) ==
    LET shell == IF run.tag = "simple" THEN "sh"
                 ELSE IF run.shell.some THEN run.shell.v ELSE "sh"
    IN IF shell \in InstalledShells
       THEN Ok([success |-> ExitsZero(run.command),
                stderr |-> StderrOf(run.command)])
       ELSE Err("spawn")

\* RunCommand::is_successful
is_successful(run) == IF execute(run).ok THEN execute(run).v.success ELSE FALSE

(***************************************************************************)
(* Condition Evaluator.                                                    *)
(***************************************************************************)
NoHostname == [tag |-> "none", names |-> <<>>]
Single(h) == [tag |-> "single", names |-> <<h>>]
Multiple(hs) == [tag |-> "multiple", names |-> hs]

\* Condition::default()
DefaultCondition ==
    [os |-> <<>>, hostname |-> NoHostname, run |-> NoRun, file_exists |-> <<>>]
NoCond == [some |-> FALSE, v |-> DefaultCondition]

contains(seq, x) == \E i \in 1..Len(seq) : seq[i] = x

\* is_met with an absent host name skipping the hostname gate
is_met_absent_host_skips(f, h, cond, os, hostname) ==
    LET os_matches == cond.os = <<>> \/ contains(cond.os, os)
        hostname_matches ==
            IF cond.hostname.tag = "none" THEN TRUE
            ELSE IF ~hostname.some THEN TRUE
            ELSE IF cond.hostname.tag = "single"
                 THEN cond.hostname.names[1] = hostname.v
                 ELSE contains(cond.hostname.names, hostname.v)
        command_succeeds == IF cond.run.some THEN is_successful(cond.run.v) ELSE TRUE
        files_exist ==
            \A i \in 1..Len(cond.file_exists) :
                exists(f, expand_tilde(h, cond.file_exists[i]))
    IN os_matches /\ hostname_matches /\ command_succeeds /\ files_exist

\* Condition::is_met, hostname an Option<&str>
is_met(f, h, cond, os, hostname) ==
    LET os_matches == cond.os = <<>> \/ contains(cond.os, os)
        hostname_matches ==
            IF cond.hostname.tag = "none" THEN TRUE
            ELSE IF ~hostname.some THEN FALSE
            ELSE IF cond.hostname.tag = "single"
                 THEN cond.hostname.names[1] = hostname.v
                 ELSE contains(cond.hostname.names, hostname.v)
        command_succeeds == IF cond.run.some THEN is_successful(cond.run.v) ELSE TRUE
        files_exist ==
            \A i \in 1..Len(cond.file_exists) :
                exists(f, expand_tilde(h, cond.file_exists[i]))
    IN os_matches /\ hostname_matches /\ command_succeeds /\ files_exist

\* condition_is_met with the if-not side not negated
condition_is_met_unnegated(f, h, if_cond, if_not_cond, os, hostname) ==
    LET if_condition_passes ==
            IF if_cond.some THEN is_met(f, h, if_cond.v, os, hostname) ELSE TRUE
        if_not_condition_passes ==
            IF if_not_cond.some THEN is_met(f, h, if_not_cond.v, os, hostname)
            ELSE TRUE
    IN if_condition_passes /\ if_not_condition_passes

\* config::condition_is_met
condition_is_met(f, h, if_cond, if_not_cond, os, hostname) ==
    LET if_condition_passes ==
            IF if_cond.some THEN is_met(f, h, if_cond.v, os, hostname) ELSE TRUE
        if_not_condition_passes ==
            IF if_not_cond.some THEN ~is_met(f, h, if_not_cond.v, os, hostname)
            ELSE TRUE
    IN if_condition_passes /\ if_not_condition_passes

\* Link::is_met
link_is_met_always(f, h, link, os, hostname) == TRUE
link_is_met(f, h, link, os, hostname) ==
    condition_is_met(f, h, link.if_cond, link.if_not_cond, os, hostname)

\* Action::is_met
action_is_met(f, h, action, os, hostname) ==
    condition_is_met(f, h, action.if_cond, action.if_not_cond, os, hostname)

(***************************************************************************)
(* Profile Filter.                                                         *)
(***************************************************************************)
NoProfile == [some |-> FALSE, v |-> ""]

\* DotmanConfig::profile_matches
profile_matches_when_none_selected(cfg, profiles) ==
    profiles = <<>>
        \/ ~cfg.selected_profile.some
        \/ contains(profiles, cfg.selected_profile.v)
profile_matches(cfg, profiles) ==
    profiles = <<>>
        \/ (cfg.selected_profile.some /\ contains(profiles, cfg.selected_profile.v))

Indices(seq) == [i \in 1..Len(seq) |-> i]

\* DotmanConfig::get_effective_links: the links that pass, in declared order,
\* each named by its index in config.links
get_effective_links_reversed(cfg) ==
    LET n == Len(cfg.links)
    IN SelectSeq([i \in 1..n |-> n + 1 - i],
                 LAMBDA i : profile_matches(cfg, cfg.links[i].profiles))
get_effective_links(cfg) ==
    SelectSeq(Indices(cfg.links),
              LAMBDA i : profile_matches(cfg, cfg.links[i].profiles))

\* DotmanConfig::get_effective_actions
get_effective_actions(cfg) ==
    SelectSeq(Indices(cfg.actions),
              LAMBDA i : profile_matches(cfg, cfg.actions[i].profiles))

(***************************************************************************)
(* Reconciler: what one pass of each loop body does.  A step yields the    *)
(* filesystem it leaves, the record it prints and, when it returns Err     *)
(* from the operation, the error.                                          *)
(***************************************************************************)
\* no line was read
NoLine == [some |-> FALSE, v |-> <<>>]

\* no action body was run, no CommandError was built
NotRun == [ran |-> "", command |-> "", message |-> ""]

Continue(f, rec) ==
    [fs |-> f, rec |-> rec, fatal |-> FALSE, error |-> "none", read |-> NoLine,
     readlink |-> "none", action |-> NotRun]
Fatal(f, e) ==
    [fs |-> f, rec |-> "Error", fatal |-> TRUE, error |-> e, read |-> NoLine,
     readlink |-> "none", action |-> NotRun]
\* the step ran the body of the action of this name
Ran(r, name) == [r EXCEPT !.action.ran = name]
\* DotmanError::CommandError { command, message }
CommandError(r, command, message) ==
    [r EXCEPT !.action.command = command, !.action.message = message]
\* the step prompted and read this line
Prompted(r, line) == [r EXCEPT !.read = Some(line)]
\* the step called read_link, which returned Ok or Err
ReadLink(r, failed) == [r EXCEPT !.readlink = IF failed THEN "Err" ELSE "Ok"]

\* the line read_line leaves in input, or the read failing
ReadError == <<"E", "I", "O">>
\* read_line at end of input: Ok(0), and input stays empty
EndOfInput == <<>>
PromptLines ==
    { <<" ", "Y", "E", "S", "\n">>, <<"n", "\n">>, EndOfInput, ReadError }

\* input.trim().to_lowercase() is "y" or "yes"
consents_unless_no(line) ==
    LET input == to_lowercase(trim(line))
    IN input # <<"n">> /\ input # <<"n", "o">>
consents(line) ==
    LET input == to_lowercase(trim(line))
    IN ~(input # <<"y">> /\ input # <<"y", "e", "s">>)

\* the removal of an existing target (install with overwrite, and remove);
\* denied: the operating system refuses it (the io::Error of lib.rs 53, 62)
remove_target_not_recursive(f, target, denied) ==
    IF denied THEN Err("EACCES")
    ELSE IF is_dir(f, target) /\ ~is_symlink(f, target)
    THEN Ok([f EXCEPT ![Lstat(f, target)] = Absent])
    ELSE remove_file(f, target)
remove_target(f, target, denied) ==
    IF denied THEN Err("EACCES")
    ELSE IF is_dir(f, target) THEN remove_dir_all(f, target)
    ELSE remove_file(f, target)

\* Dotman::install: the source is missing, so the link is ignored
was_not_found_never(f, source) == FALSE
was_not_found(f, source) == ~exists(f, source)

\* Dotman::install: the target exists and overwrite is off, so the link is
\* left with a warning
already_exists_never(f, cfg, target) == FALSE
already_exists_when_overwrite(f, cfg, target) == exists(f, target) /\ cfg.overwrite
already_exists(f, cfg, target) == exists(f, target) /\ ~cfg.overwrite

\* Dotman::install, the body of the loop over the effective links
install_link(f, cfg, h, hst, link, line, denied) ==
    LET source == resolve(h, link.source)
        target == resolve(h, link.target)
    IN IF ~source.ok \/ ~target.ok THEN Fatal(f, "IoError")
       ELSE IF ~link_is_met(f, h, link, get_current_os(hst), hostname_arg(hst))
            THEN Continue(f, "Ignored: failed condition check")
       ELSE IF was_not_found(f, source.v)
            THEN Continue(f, "Ignored: was not found")
       ELSE IF already_exists(f, cfg, target.v)
            THEN Continue(f, "Warning: already exists")
       ELSE LET cleared == IF exists(f, target.v)
                           THEN remove_target(f, target.v, denied)
                           ELSE Ok(f)
            IN IF ~cleared.ok THEN Fatal(f, "IoError")
               ELSE IF cfg.ask /\ line = ReadError
                    THEN Prompted(Fatal(cleared.v, "IoError"), line)
               ELSE IF cfg.ask /\ ~consents(line)
                    THEN Prompted(Continue(cleared.v, "Skipped"), line)
               ELSE LET made == symlink(cleared.v, source.v, target.v)
                        done == IF ~made.ok THEN Fatal(cleared.v, "IoError")
                                ELSE Continue(made.v, "Linked")
                    IN IF cfg.ask THEN Prompted(done, line) ELSE done

\* Dotman::install, the body of the loop over the effective actions
install_action_keeps_going(f, cfg, h, hst, action) ==
    IF ~condition_is_met(f, h, action.if_cond, action.if_not_cond,
                         get_current_os(hst), hostname_arg(hst))
    THEN Continue(f, "Ignored: failed condition check")
    ELSE LET output == execute(action.run)
         IN IF ~output.ok THEN Fatal(f, "IoError")
            ELSE IF output.v.success THEN Ran(Continue(f, "Success"), action.name)
            ELSE Ran(CommandError(Continue(f, "Error"), action.name,
                                  output.v.stderr),
                     action.name)
install_action(f, cfg, h, hst, action) ==
    IF ~condition_is_met(f, h, action.if_cond, action.if_not_cond,
                         get_current_os(hst), hostname_arg(hst))
    THEN Continue(f, "Ignored: failed condition check")
    ELSE LET output == execute(action.run)
         IN IF ~output.ok THEN Fatal(f, "IoError")
            ELSE IF output.v.success THEN Ran(Continue(f, "Success"), action.name)
            ELSE Ran(CommandError(Fatal(f, "CommandError"), action.name,
                                  output.v.stderr),
                     action.name)

\* Dotman::remove, the body of the loop over the effective links
remove_link_unchecked(f, cfg, h, link, denied) ==
    LET target == resolve(h, link.target)
    IN IF ~target.ok THEN Fatal(f, "IoError")
       ELSE LET removed == remove_target(f, target.v, denied)
            IN IF ~removed.ok THEN Fatal(f, "IoError")
               ELSE Continue(removed.v, "Removed")
remove_link(f, cfg, h, link, denied) ==
    LET target == resolve(h, link.target)
    IN IF ~target.ok THEN Fatal(f, "IoError")
       ELSE IF ~exists(f, target.v) THEN Continue(f, "Ignored: does not exist")
       ELSE LET removed == remove_target(f, target.v, denied)
            IN IF ~removed.ok THEN Fatal(f, "IoError")
               ELSE Continue(removed.v, "Removed")

\* Dotman::status: the source is missing
source_missing_never(f, source) == FALSE
source_missing(f, source) == ~exists(f, source)

\* Dotman::status, the body of the loop over the effective links
status_link(f, cfg, h, hst, link, readlink_fails) ==
    LET source == resolve(h, link.source)
        target == resolve(h, link.target)
    IN IF ~source.ok \/ ~target.ok THEN Fatal(f, "IoError")
       ELSE IF ~link_is_met(f, h, link, get_current_os(hst), hostname_arg(hst))
            THEN Continue(f, "CONDITION NOT MET")
       ELSE IF source_missing(f, source.v) THEN Continue(f, "SOURCE MISSING")
       ELSE IF ~exists(f, target.v) THEN Continue(f, "NOT LINKED")
       ELSE IF is_symlink(f, target.v)
            THEN IF read_link(f, target.v).ok /\ ~readlink_fails
                 THEN IF path_eq(read_link(f, target.v).v, source.v)
                      THEN ReadLink(Continue(f, "OK"), FALSE)
                      ELSE ReadLink(Continue(f, "WRONG TARGET"), FALSE)
                 ELSE ReadLink(Continue(f, "SYMLINK ERROR"), TRUE)
       ELSE Continue(f, "EXISTS BUT NOT SYMLINK")

\* Dotman::status, the body of the loop over the effective actions
status_action_runs(f, cfg, h, hst, action) == install_action(f, cfg, h, hst, action)
status_action(f, cfg, h, hst, action) ==
    IF ~condition_is_met(f, h, action.if_cond, action.if_not_cond,
                         get_current_os(hst), hostname_arg(hst))
    THEN Continue(f, "CONDITION NOT MET")
    ELSE Continue(f, "READY TO RUN")

(***************************************************************************)
(* The operations as steps.  An operation starts, runs its loop bodies one *)
(* entry at a time in list order, and returns; nothing else runs meanwhile.*)
(***************************************************************************)
Record(r, what, i) ==
    [kind |-> r.rec, what |-> what, idx |-> i, read |-> r.read,
     readlink |-> r.readlink, action |-> r.action]

\* the operation returns: its run joins the history
Return(o, result, f, records) ==
    /\ hist' = Append(hist, [op |-> o, result |-> result, before |-> fs0,
                             after |-> f, out |-> records])
    /\ fs' = f
    /\ fs0' = f
    /\ op' = "none"
    /\ pc' = "idle"
    /\ pos' = 0
    /\ out' = <<>>

\* the loops move on from entry p of a stage (p = 0: the loop is entered)
Advance(o, stage, p, f, records) ==
    LET nl == Len(get_effective_links(config))
        na == IF o = "remove" THEN 0 ELSE Len(get_effective_actions(config))
    IN IF stage = "links" /\ p < nl
       THEN /\ pc' = "links" /\ pos' = p + 1 /\ op' = o
            /\ fs' = f /\ out' = records /\ UNCHANGED <<fs0, hist>>
       ELSE IF (stage = "links" /\ na > 0) \/ (stage = "actions" /\ p < na)
       THEN /\ pc' = "actions" /\ pos' = (IF stage = "links" THEN 1 ELSE p + 1)
            /\ op' = o /\ fs' = f /\ out' = records /\ UNCHANGED <<fs0, hist>>
       ELSE Return(o, "ok", f, records)

\* one loop body has run
Step_keeps_going(o, stage, r, i) ==
    /\ Advance(o, stage, pos, r.fs, Append(out, Record(r, stage, i)))
    /\ UNCHANGED <<config, home, host, fn>>
Step(o, stage, r, i) ==
    /\ IF r.fatal
       THEN Return(o, r.error, r.fs, Append(out, Record(r, stage, i)))
       ELSE Advance(o, stage, pos, r.fs, Append(out, Record(r, stage, i)))
    /\ UNCHANGED <<config, home, host, fn>>

Start(o) ==
    /\ pc = "idle"
    /\ fn.kind = "none"
    /\ Len(hist) < MaxRuns
    /\ Advance(o, "links", 0, fs, <<>>)
    /\ UNCHANGED <<config, home, host, fn>>

CurrentLink == get_effective_links(config)[pos]
CurrentAction == get_effective_actions(config)[pos]

StartInstall == Start("install")

InstallLink ==
    /\ op = "install" /\ pc = "links"
    /\ \E line \in PromptLines, denied \in BOOLEAN :
          Step("install", "links",
               install_link(fs, config, home, host, config.links[CurrentLink], line,
                            denied),
               CurrentLink)

InstallAction ==
    /\ op = "install" /\ pc = "actions"
    /\ Step("install", "actions",
            install_action(fs, config, home, host, config.actions[CurrentAction]),
            CurrentAction)

StartRemove == Start("remove")

RemoveLink ==
    /\ op = "remove" /\ pc = "links"
    /\ \E denied \in BOOLEAN :
          Step("remove", "links",
               remove_link(fs, config, home, config.links[CurrentLink], denied),
               CurrentLink)

StartStatus == Start("status")

StatusLink ==
    /\ op = "status" /\ pc = "links"
    /\ \E readlink_fails \in BOOLEAN :
          Step("status", "links",
               status_link(fs, config, home, host, config.links[CurrentLink],
                           readlink_fails),
               CurrentLink)

StatusAction ==
    /\ op = "status" /\ pc = "actions"
    /\ Step("status", "actions",
            status_action(fs, config, home, host, config.actions[CurrentAction]),
            CurrentAction)

(***************************************************************************)
(* Configurations.                                                         *)
(***************************************************************************)
Link(source, target, if_cond, if_not_cond, profiles) ==
    [source |-> source, target |-> target, if_cond |-> if_cond,
     if_not_cond |-> if_not_cond, profiles |-> profiles]

ShellCommand(name, run, if_cond, if_not_cond, profiles) ==
    [name |-> name, run |-> run, if_cond |-> if_cond,
     if_not_cond |-> if_not_cond, profiles |-> profiles]

\* the paths the configurations name: ~/s, ~/u, ~//s, /h/t, /h/t/x, u, ~/t
TildeS == <<"~", "/", "s">>
TildeU == <<"~", "/", "u">>
TildeT == <<"~", "/", "t">>
AbsT == <<"/", "h", "/", "t">>
AbsS == <<"/", "h", "/", "s">>
AbsTX == <<"/", "h", "/", "t", "/", "x">>
RelU == <<"u">>
\* a path nothing is ever stored at
AbsN == <<"/", "h", "/", "n">>

If(c) == [some |-> TRUE, v |-> c]
RunIs(c) == [DefaultCondition EXCEPT !.run = [some |-> TRUE, v |-> Simple(c)]]
OsIs(os) == [DefaultCondition EXCEPT !.os = os]
HostIs(m) == [DefaultCondition EXCEPT !.hostname = m]
FilesExist(ps) == [DefaultCondition EXCEPT !.file_exists = ps]

\* ~/s -> /h/t, unconditional
LinkST == Link(TildeS, AbsT, NoCond, NoCond, <<>>)
\* /h/t -> u (relative): its source is LinkST's target
LinkTU == Link(AbsT, RelU, NoCond, NoCond, <<>>)
\* ~/u -> /h/t: LinkST's target, another source
LinkUT == Link(TildeU, AbsT, NoCond, NoCond, <<>>)
\* ~/s -> /h/t/x: a target inside a directory
LinkSTX == Link(TildeS, AbsTX, NoCond, NoCond, <<>>)
\* ~/s -> /h/t if the probe `false` succeeds
LinkSTIfFalse == Link(TildeS, AbsT, If(RunIs("false")), NoCond, <<>>)
\* ~/s -> /h/t unless the host is macOS, on hosts alpha and beta
LinkSTHost ==
    Link(TildeS, AbsT, If(HostIs(Multiple(<<"alpha", "beta">>))),
         If(OsIs(<<"macos">>)), <<>>)
\* ~/s -> u if ~/t exists
LinkSUIfT == Link(TildeS, RelU, If(FilesExist(<<TildeT>>)), NoCond, <<>>)
\* ~/u -> /h/t, in profile work only
LinkUTWork == Link(TildeU, AbsT, NoCond, NoCond, <<"work">>)

ActionTrue == ShellCommand("ok", Simple("true"), NoCond, NoCond, <<>>)
ActionFalse == ShellCommand("failing", Simple("fail"), NoCond, NoCond, <<>>)
ActionWork ==
    ShellCommand("work", Complex("true", NoShell), NoCond, NoCond, <<"work">>)
ActionIfFalse ==
    ShellCommand("never", Simple("true"), If(RunIs("false")), NoCond, <<>>)

Declared(links, actions) == [links |-> links, actions |-> actions]

\* the link and action lists of the configuration files
ConfigFiles ==
    { Declared(<<LinkST>>, <<>>),
      Declared(<<LinkST, LinkTU>>, <<ActionTrue>>),
      Declared(<<LinkST, LinkUT>>, <<>>),
      Declared(<<LinkSTX>>, <<ActionFalse, ActionTrue>>),
      Declared(<<LinkSTIfFalse>>, <<ActionIfFalse>>),
      Declared(<<LinkSTHost>>, <<>>),
      Declared(<<LinkSUIfT, LinkST>>, <<>>),
      Declared(<<LinkUTWork, LinkST>>, <<ActionWork, ActionTrue>>) }

\* the files install, remove and status are also run on with --ask: the
\* prompt is the same code for every link, between the removal of the old
\* target and the creation of the new one
AskedFiles ==
    { Declared(<<LinkST>>, <<>>),
      Declared(<<LinkST, LinkTU>>, <<ActionTrue>>),
      Declared(<<LinkSTX>>, <<ActionFalse, ActionTrue>>) }

Profiles == {NoProfile, [some |-> TRUE, v |-> "work"], [some |-> TRUE, v |-> "home"]}

\* DotmanConfig: a parsed file with the runtime overlays applied
\* (with_overwrite, with_ask, with_profile)
DotmanConfig(file, overwrite, ask, profile) ==
    [links |-> file.links, actions |-> file.actions, overwrite |-> overwrite,
     ask |-> ask, selected_profile |-> profile]

(***************************************************************************)
(* Initial filesystems: /h is a directory; each of /h/s, /h/t, /h/u is     *)
(* absent, a file, a directory holding the file x, or a symbolic link.     *)
(***************************************************************************)
\* what an initial symbolic link points to: /h/s, or a path that is missing
LinkDests == {AbsS, AbsN}
Shapes ==
    {[e |-> Absent, x |-> Absent], [e |-> File, x |-> Absent],
     [e |-> Dir, x |-> File]}
        \cup {[e |-> Symlink(d), x |-> Absent] : d \in LinkDests}
\* /h/s is only ever a source: what matters is whether it exists and whether
\* it is a directory
SourceShapes ==
    {[e |-> Absent, x |-> Absent], [e |-> File, x |-> Absent],
     [e |-> Dir, x |-> File]}

BuildFs(shape) ==
    [n \in Nodes |->
        IF n = HomeNode THEN Dir
        ELSE IF Len(n) = 2 THEN shape[n[2]].e
        ELSE shape[n[2]].x]

\* /h/u is a source, or the target of a second link: /h/t already takes every
\* shape a target can have
OtherShapes ==
    {[e |-> Absent, x |-> Absent], [e |-> File, x |-> Absent],
     [e |-> Symlink(AbsS), x |-> Absent]}

InitialFilesystems ==
    {BuildFs(shape) : shape \in
        {sh \in [Names -> Shapes] :
            sh[<<"s">>] \in SourceShapes /\ sh[<<"u">>] \in OtherShapes}}

Hosts ==
    { [os |-> "linux", lookup |-> Ok("alpha")],
      [os |-> "macos", lookup |-> Ok("beta")],
      [os |-> "linux", lookup |-> LookupFailed] }

DefaultHost == [os |-> "linux", lookup |-> Ok("alpha")]

\* A file that tags no entry with a profile behaves the same under every
\* selected profile, and one whose conditions name no OS and no host name
\* behaves the same on every host: Init draws one profile, one host for them.
UsesProfiles(file) ==
    \/ \E i \in 1..Len(file.links) : file.links[i].profiles # <<>>
    \/ \E i \in 1..Len(file.actions) : file.actions[i].profiles # <<>>

CondUsesHost(c) == c.some /\ (c.v.os # <<>> \/ c.v.hostname.tag # "none")

UsesHost(file) ==
    \/ \E i \in 1..Len(file.links) :
          CondUsesHost(file.links[i].if_cond) \/ CondUsesHost(file.links[i].if_not_cond)
    \/ \E i \in 1..Len(file.actions) :
          CondUsesHost(file.actions[i].if_cond)
              \/ CondUsesHost(file.actions[i].if_not_cond)

\* the operations reach only the paths the file names: for a file that does
\* not name /h/u, Init leaves it absent
UsesU(file) ==
    \E i \in 1..Len(file.links) :
        {file.links[i].source, file.links[i].target} \cap {TildeU, RelU} # {}

\* dirs::home_dir(): the home directory, or none
Homes == {Some(HomeDir), None}

NoFn == [kind |-> "none"]

Init ==
    /\ fs \in InitialFilesystems
    /\ \E file \in ConfigFiles, overwrite \in BOOLEAN, ask \in BOOLEAN,
          profile \in Profiles :
          /\ profile.some => UsesProfiles(file)
          /\ ask => file \in AskedFiles
          /\ config = DotmanConfig(file, overwrite, ask, profile)
    /\ home = Some(HomeDir)
    /\ host \in Hosts
    /\ host # DefaultHost => UsesHost(config)
    /\ ~UsesU(config) => fs[<<<<"h">>, <<"u">>>>] = Absent
    /\ op = "none"
    /\ pc = "idle"
    /\ pos = 0
    /\ out = <<>>
    /\ fs0 = fs
    /\ hist = <<>>
    /\ fn = NoFn

Next ==
    \/ StartInstall
    \/ InstallLink
    \/ InstallAction
    \/ StartRemove
    \/ RemoveLink
    \/ StartStatus
    \/ StatusLink
    \/ StatusAction

Spec == Init /\ [][Next]_vars

(***************************************************************************)
(* The operations in a changing environment: the home directory may be     *)
(* unknown, and between two operations the source ~/s may be moved away.   *)
(***************************************************************************)
EnvFiles ==
    { Declared(<<LinkST>>, <<>>),
      Declared(<<LinkST, LinkTU>>, <<ActionTrue>>),
      Declared(<<LinkTU, LinkST>>, <<ActionTrue>>) }

InitEnv ==
    /\ fs \in InitialFilesystems
    /\ \E file \in EnvFiles, overwrite \in BOOLEAN, ask \in BOOLEAN :
          /\ ask => file = Declared(<<LinkST>>, <<>>)
          /\ config = DotmanConfig(file, overwrite, ask, NoProfile)
    /\ home \in Homes
    /\ config.ask => home.some
    /\ host = DefaultHost
    /\ ~UsesU(config) => fs[<<<<"h">>, <<"u">>>>] = Absent
    /\ op = "none"
    /\ pc = "idle"
    /\ pos = 0
    /\ out = <<>>
    /\ fs0 = fs
    /\ hist = <<>>
    /\ fn = NoFn

\* someone renames /h/s to a path no link names: /h/s and everything beneath
\* it are gone from where they were
MoveSourceAway ==
    /\ pc = "idle"
    /\ fn.kind = "none"
    /\ hist # <<>> /\ Len(hist) < MaxRuns
    /\ StoredAtS(fs) # Absent
    /\ fs' = [n \in Nodes |-> IF IsPrefix(Lstat(fs, AbsS), n) THEN Absent ELSE fs[n]]
    /\ fs0' = fs'
    /\ UNCHANGED <<config, home, host, op, pc, pos, out, hist, fn>>

NextEnv ==
    \/ Next
    \/ MoveSourceAway

SpecEnv == InitEnv /\ [][NextEnv]_vars

(***************************************************************************)
(* The tilde expanders on their own: a path and a home directory are       *)
(* drawn, and both expanders are applied to them.                          *)
(***************************************************************************)
TildeAlphabet == {"~", "/", "a"}
TildeInputs == UNION {[1..n -> TildeAlphabet] : n \in 0..MaxLen}

EmptyFs == [n \in Nodes |-> IF n = HomeNode THEN Dir ELSE Absent]
IdleConfig == DotmanConfig(Declared(<<>>, <<>>), FALSE, FALSE, NoProfile)

\* the reconciler stands still while a pure function is exercised
ReconcilerIdle ==
    /\ config = IdleConfig
    /\ host = DefaultHost
    /\ op = "none"
    /\ pc = "idle"
    /\ pos = 0
    /\ out = <<>>
    /\ fs0 = fs
    /\ hist = <<>>

InitTilde ==
    /\ fs = EmptyFs
    /\ home \in Homes
    /\ \E p \in TildeInputs :
          fn = [kind |-> "tilde", done |-> FALSE, path |-> p,
                link |-> Ok(<<>>), file |-> <<>>]
    /\ ReconcilerIdle

\* path.expand_tilde_path() and expand_tilde(path)
ExpandBoth ==
    /\ fn.kind = "tilde" /\ ~fn.done
    /\ fn' = [fn EXCEPT !.done = TRUE,
                        !.link = expand_tilde_path(home, fn.path),
                        !.file = expand_tilde(home, fn.path)]
    /\ UNCHANGED <<fs, config, home, host, op, pc, pos, out, fs0, hist>>

NextTilde == ExpandBoth

SpecTilde == InitTilde /\ [][NextTilde]_vars

(***************************************************************************)
(* The condition evaluator on its own: an if / if-not pair, an OS, a host  *)
(* name and a filesystem are drawn, and the evaluator is applied to them.  *)
(***************************************************************************)
OperatingSystems == {"linux", "macos", "windows"}
HostnameArgs == {NoHost, Some("alpha"), Some("gamma")}

Conditions ==
    { [os |-> o, hostname |-> m, run |-> r, file_exists |-> fe] :
        o \in {<<>>, <<"linux">>, <<"macos", "windows">>},
        m \in {NoHostname, Single("alpha"), Multiple(<<"beta", "alpha">>)},
        r \in {NoRun, If(Simple("true")), If(Simple("false")),
               If(Complex("true", [some |-> TRUE, v |-> "fish"]))},
        fe \in {<<>>, <<TildeS>>, <<TildeS, AbsT>>} }

\* the conditions drawn for the other side of a pair
FewConditions ==
    { DefaultCondition, OsIs(<<"linux">>), HostIs(Single("alpha")),
      RunIs("false"), FilesExist(<<AbsT>>) }

Optional(S) == {NoCond} \cup {If(c) : c \in S}

ConditionPairs ==
    (Optional(Conditions) \X Optional(FewConditions))
        \cup (Optional(FewConditions) \X Optional(Conditions))

\* nothing at /h/s and /h/t; a file at /h/s; a directory at /h/s and a link
\* to it at /h/t; a link at /h/s whose destination is missing
ConditionFilesystems ==
    { EmptyFs,
      [EmptyFs EXCEPT ![<<<<"h">>, <<"s">>>>] = File],
      [EmptyFs EXCEPT ![<<<<"h">>, <<"s">>>>] = Dir,
                      ![<<<<"h">>, <<"t">>>>] = Symlink(AbsS)],
      [EmptyFs EXCEPT ![<<<<"h">>, <<"s">>>>] = Symlink(AbsN),
                      ![<<<<"h">>, <<"t">>>>] = File] }

InitCond ==
    /\ fs \in ConditionFilesystems
    /\ home = Some(HomeDir)
    /\ \E pair \in ConditionPairs, os \in OperatingSystems, hn \in HostnameArgs :
          fn = [kind |-> "cond", done |-> FALSE, if_cond |-> pair[1],
                if_not_cond |-> pair[2], os |-> os, hostname |-> hn,
                if_met |-> FALSE, if_not_met |-> FALSE, pair_met |-> FALSE]
    /\ ReconcilerIdle

\* cond.is_met(os, hostname) on each side, and condition_is_met on the pair
EvaluatePair ==
    /\ fn.kind = "cond" /\ ~fn.done
    /\ fn' = [fn EXCEPT
                !.done = TRUE,
                !.if_met = is_met(fs, home, fn.if_cond.v, fn.os, fn.hostname),
                !.if_not_met = is_met(fs, home, fn.if_not_cond.v, fn.os, fn.hostname),
                !.pair_met = condition_is_met(fs, home, fn.if_cond, fn.if_not_cond,
                                              fn.os, fn.hostname)]
    /\ UNCHANGED <<fs, config, home, host, op, pc, pos, out, fs0, hist>>

NextCond == EvaluatePair

SpecCond == InitCond /\ [][NextCond]_vars

(***************************************************************************)
(* The host probe feeding the evaluator, as install and status do it: a    *)
(* host (its OS, and a hostname command that runs or cannot be run) and a  *)
(* condition are drawn; the condition is evaluated with what get_hostname  *)
(* returned on that host, on its own and as the `if` of a link.            *)
(***************************************************************************)
HostConditions ==
    { [os |-> o, hostname |-> m, run |-> r, file_exists |-> fe] :
        o \in {<<>>, <<"linux">>},
        m \in {NoHostname, Single("alpha"), Single("unknown"),
               Multiple(<<"beta", "unknown">>)},
        r \in {NoRun, If(Simple("false"))},
        fe \in {<<>>, <<TildeS>>} }

InitHost ==
    /\ fs \in ConditionFilesystems
    /\ home = Some(HomeDir)
    /\ host \in Hosts
    /\ \E c \in HostConditions :
          fn = [kind |-> "host", done |-> FALSE, cond |-> c,
                met |-> FALSE, link_met |-> FALSE]
    /\ config = IdleConfig
    /\ op = "none"
    /\ pc = "idle"
    /\ pos = 0
    /\ out = <<>>
    /\ fs0 = fs
    /\ hist = <<>>

\* let os = get_current_os(); let hostname = get_hostname();
\* cond.is_met(&os, hostname.as_deref()) and link.is_met(&os, hostname.as_deref())
EvaluateOnHost ==
    /\ fn.kind = "host" /\ ~fn.done
    /\ fn' = [fn EXCEPT
                !.done = TRUE,
                !.met = is_met(fs, home, fn.cond, get_current_os(host),
                               hostname_arg(host)),
                !.link_met =
                    link_is_met(fs, home,
                                Link(TildeS, AbsT, If(fn.cond), NoCond, <<>>),
                                get_current_os(host), hostname_arg(host))]
    /\ UNCHANGED <<fs, config, home, host, op, pc, pos, out, fs0, hist>>

NextHost == EvaluateOnHost

SpecHost == InitHost /\ [][NextHost]_vars

(***************************************************************************)
(* Properties of the condition evaluator (checked under SpecCond).         *)
(***************************************************************************)
Range(seq) == {seq[i] : i \in 1..Len(seq)}

\* the four gates, as the data model states them
OsGate(c, os) == Len(c.os) = 0 \/ os \in Range(c.os)
HostnameGate(c, hn) ==
    c.hostname.tag = "none" \/ (hn.some /\ hn.v \in Range(c.hostname.names))
CommandGate(c) ==
    ~c.run.some \/ (execute(c.run.v).ok /\ ExitsZero(c.run.v.command))
FileGate(f, h, c) ==
    \A p \in Range(c.file_exists) : Stat(f, expand_tilde(h, p)) # NoNode

Evaluated == fn.kind = "cond" /\ fn.done

\* C7: Condition::is_met is true iff the OS gate, the hostname gate, the
\* command gate and the file-existence gate all hold; in particular a condition
\* with a hostname matcher is false when the host name is absent.
C7_IsMetIffAllGates ==
    Evaluated /\ fn.if_cond.some =>
        /\ fn.if_met = (/\ FileGate(fs, home, fn.if_cond.v)
                        /\ CommandGate(fn.if_cond.v)
                        /\ HostnameGate(fn.if_cond.v, fn.hostname)
                        /\ OsGate(fn.if_cond.v, fn.os))
        /\ (fn.if_cond.v.hostname.tag # "none" /\ ~fn.hostname.some => ~fn.if_met)

\* a condition whose only failing gate is a hostname matcher met by an absent
\* host name has been evaluated, to false
C7_Witness ==
    /\ Evaluated /\ fn.if_cond.some
    /\ fn.if_cond.v.hostname.tag = "multiple" /\ ~fn.hostname.some
    /\ OsGate(fn.if_cond.v, fn.os) /\ fn.if_cond.v.os # <<>>
    /\ CommandGate(fn.if_cond.v) /\ fn.if_cond.v.run.some
    /\ FileGate(fs, home, fn.if_cond.v) /\ fn.if_cond.v.file_exists # <<>>
    /\ ~fn.if_met

\* C8: condition_is_met(Some(C), None) is C.is_met, condition_is_met(None,
\* Some(C)) is its negation, condition_is_met(None, None) is true, and with
\* both sides present the result is if.is_met and not if-not.is_met.
C8_PairSymmetry ==
    Evaluated =>
        /\ (fn.if_cond.some /\ ~fn.if_not_cond.some => fn.pair_met = fn.if_met)
        /\ (~fn.if_cond.some /\ fn.if_not_cond.some => fn.pair_met = ~fn.if_not_met)
        /\ (~fn.if_cond.some /\ ~fn.if_not_cond.some => fn.pair_met)
        /\ (fn.if_cond.some /\ fn.if_not_cond.some =>
                fn.pair_met = (fn.if_met /\ ~fn.if_not_met))

\* an if-not condition that holds, with no if condition, has made the pair fail
C8_Witness ==
    /\ Evaluated
    /\ ~fn.if_cond.some /\ fn.if_not_cond.some
    /\ fn.if_not_cond.v # DefaultCondition
    /\ fn.if_not_met /\ ~fn.pair_met

(***************************************************************************)
(* Properties of the tilde expanders (checked under SpecTilde).            *)
(***************************************************************************)
Expanded == fn.kind = "tilde" /\ fn.done

\* C9: a path beginning with ~/ expands to <home>/<rest> with exactly one
\* separator between the home directory and the remainder, a path not
\* beginning with ~ is returned unchanged, and the link-path expander and the
\* file_exists expander give the same result on every input.
C9_TildeExpansion ==
    Expanded /\ home.some =>
        /\ starts_with(fn.path, <<"~", "/">>) =>
              LET rest == trim_start_matches(SubSeq(fn.path, 3, Len(fn.path)), "/")
              IN /\ fn.link = Ok(home.v \o <<"/">> \o rest)
                 /\ fn.file = home.v \o <<"/">> \o rest
        /\ ~starts_with(fn.path, <<"~">>) =>
              fn.link = Ok(fn.path) /\ fn.file = fn.path
        /\ fn.link = Ok(fn.file)

(***************************************************************************)
(* Properties of the reconciler (checked under Spec).                      *)
(***************************************************************************)
Runs == Range(hist)
LinkIds == 1..Len(config.links)
ActionIds == 1..Len(config.actions)

\* the resolved source and target of link i
SourceOf(i) == resolve(home, config.links[i].source).v
TargetOf(i) == resolve(home, config.links[i].target).v

\* the profile filter and the if / if-not pair, as the data model states them
Active(profiles) ==
    Len(profiles) = 0
        \/ (config.selected_profile.some
                /\ config.selected_profile.v \in Range(profiles))
ConditionsHold(f, i) ==
    condition_is_met(f, home, config.links[i].if_cond, config.links[i].if_not_cond,
                     get_current_os(host), hostname_arg(host))
Eligible(f, i) == Active(config.links[i].profiles) /\ ConditionsHold(f, i)

\* what is stored at a path, its last component not followed
StoredAt(f, p) == EntryAt(f, Lstat(f, p))
\* the path is a symbolic link whose stored contents are dest
IsLinkTo(f, p, dest) == StoredAt(f, p) = Symlink(dest)
\* nothing lies beneath the node the path names
NothingBeneath(f, p) ==
    \A n \in Nodes : IsPrefix(Lstat(f, p), n) /\ n # Lstat(f, p) => f[n] = Absent
\* the path names the same node, holding the same entries, in f and g
SameAt(f, g, p) ==
    /\ Lstat(f, p) = Lstat(g, p)
    /\ \A n \in Nodes : IsPrefix(Lstat(f, p), n) => f[n] = g[n]

\* the record of the loop body that ran last
Records == IF out # <<>> THEN out ELSE IF hist # <<>> THEN Last(hist).out ELSE <<>>
HasRecord == Records # <<>>
LastRecord == Last(Records)
\* the operation that loop body belongs to
LastOp == IF out # <<>> THEN op ELSE Last(hist).op

InLinkLoop(o) == op = o /\ pc = "links"

\* C1 as stated: whenever install returns success, every effective link that
\* is eligible and whose source exists has a symbolic link to its source at
\* its target.
C1_Original ==
    \A r \in Runs :
        r.op = "install" /\ r.result = "ok" =>
            \A i \in LinkIds :
                /\ Eligible(r.before, i) /\ Eligible(r.after, i)
                /\ exists(r.before, SourceOf(i)) /\ exists(r.after, SourceOf(i))
                => IsLinkTo(r.after, TargetOf(i), SourceOf(i))

\* C1, amended: when install processes a link that is eligible and whose
\* source exists, the step emits Linked exactly when the target does not exist
\* or overwrite is set, the prompt (if ask is set) is not declined and the step
\* does not fail; and right after a step that emits Linked the target is a
\* symbolic link whose stored contents equal the resolved source.
C1_LinkedStep ==
    [][InLinkLoop("install") /\ ConditionsHold(fs, CurrentLink)
            /\ exists(fs, SourceOf(CurrentLink))
        => /\ (LastRecord'.kind = "Linked") =
                 (/\ ~exists(fs, TargetOf(CurrentLink)) \/ config.overwrite
                  /\ LastRecord'.kind \notin {"Skipped", "Error"})
           /\ LastRecord'.kind = "Skipped" => config.ask
           /\ LastRecord'.kind = "Linked" =>
                 IsLinkTo(fs', TargetOf(CurrentLink), SourceOf(CurrentLink))]_vars

\* install has just linked a link whose target did not exist, after the user
\* consented at the prompt
C1_Witness ==
    /\ HasRecord /\ LastOp = "install"
    /\ LastRecord.kind = "Linked" /\ LastRecord.read.some
    /\ ~config.overwrite
    /\ IsLinkTo(fs, TargetOf(LastRecord.idx), SourceOf(LastRecord.idx))
    /\ exists(fs, TargetOf(LastRecord.idx))

C3_Original ==
    [][InLinkLoop("install") \/ InLinkLoop("remove")
        => \A i \in LinkIds :
              ~Eligible(fs, i) => SameAt(fs, fs', TargetOf(i))]_vars

\* C3, amended: install and remove process only links that pass the profile
\* filter; when install processes a link whose conditions fail it changes
\* nothing in the filesystem and emits Ignored.  remove evaluates no condition:
\* it removes whatever resolves at the target of every link it processes, or
\* fails when the removal is refused.
C3_IneligibleStep ==
    [][InLinkLoop("install") \/ InLinkLoop("remove")
        => /\ Active(config.links[CurrentLink].profiles)
           /\ (op = "install" /\ ~ConditionsHold(fs, CurrentLink))
                 => /\ fs' = fs
                    /\ LastRecord'.kind = "Ignored: failed condition check"
           /\ (op = "remove" /\ exists(fs, TargetOf(CurrentLink)))
                 => /\ LastRecord'.kind \in {"Removed", "Error"}
                    /\ LastRecord'.kind = "Removed"
                          => StoredAt(fs', TargetOf(CurrentLink)) = Absent
                    /\ LastRecord'.kind = "Error" => fs' = fs]_vars

\* install with overwrite has just passed over a link whose conditions fail,
\* although its source and its target both exist
C3_Witness ==
    /\ HasRecord /\ LastOp = "install" /\ config.overwrite
    /\ LastRecord.what = "links"
    /\ LastRecord.kind = "Ignored: failed condition check"
    /\ exists(fs, SourceOf(LastRecord.idx))
    /\ exists(fs, TargetOf(LastRecord.idx))

\* two installs in a row, the first from a state where every link's source
\* exists and nothing is stored at any link's target
TwoInstalls ==
    /\ Len(hist) = 2
    /\ hist[1].op = "install" /\ hist[2].op = "install"
    /\ \A i \in LinkIds :
          /\ exists(hist[1].before, SourceOf(i))
          /\ StoredAt(hist[1].before, TargetOf(i)) = Absent
LinkRecords(r) == { rec \in Range(r.out) : rec.what = "links" }

C5_RoundTrip ==
    (/\ Len(hist) = 2
     /\ hist[1].op = "install" /\ hist[1].result = "ok"
     /\ hist[2].op = "remove" /\ hist[2].result = "ok"
     /\ \A i \in LinkIds : StoredAt(hist[1].before, TargetOf(i)) = Absent)
    => \A rec \in LinkRecords(hist[1]) :
          rec.kind = "Linked" => StoredAt(hist[2].after, TargetOf(rec.idx)) = Absent

\* every sequence of records: those of the finished runs and of the run under
\* way
Outputs == { r.out : r \in Runs } \cup {out}
EntryProfiles(rec) ==
    IF rec.what = "links" THEN config.links[rec.idx].profiles
    ELSE config.actions[rec.idx].profiles
Processed(r, what) == { rec.idx : rec \in { x \in Range(r.out) : x.what = what } }

\* C6: every entry that install, remove or status processes has an empty
\* profiles list or one that contains the selected profile; the entries are
\* processed in declared order, links before actions; and an operation that
\* returns success has processed every such link (and, for install and status,
\* every such action) and no other entry.
C6_ProfileFilter ==
    /\ \A o \in Outputs :
          /\ \A j \in DOMAIN o : Active(EntryProfiles(o[j]))
          /\ \A j, k \in DOMAIN o :
                j < k => /\ o[j].what = o[k].what => o[j].idx < o[k].idx
                         /\ ~(o[j].what = "actions" /\ o[k].what = "links")
    /\ \A r \in Runs :
          r.result = "ok" =>
             /\ Processed(r, "links")
                   = { i \in LinkIds : Active(config.links[i].profiles) }
             /\ Processed(r, "actions")
                   = IF r.op = "remove" THEN {}
                     ELSE { i \in ActionIds : Active(config.actions[i].profiles) }

\* with a profile selected, an operation returned success having left out a
\* link of another profile and processed a link of no profile
C6_Witness ==
    /\ config.selected_profile.some
    /\ \E r \in Runs :
          /\ r.result = "ok"
          /\ \E i \in LinkIds :
                /\ config.links[i].profiles # <<>>
                /\ i \notin Processed(r, "links")
                /\ exists(r.before, SourceOf(i))
          /\ Processed(r, "links") # {}

\* the classification status made last, with the filesystem it was made on:
\* status changes nothing and no other step has run since
Classified ==
    IF HasRecord /\ LastOp = "status" /\ LastRecord.what = "links"
    THEN {[rec |-> LastRecord, f |-> fs]}
    ELSE {}
Is(c, kind) == c.rec.kind = kind
EligibleAt(c) == ConditionsHold(c.f, c.rec.idx)
SourceExists(c) == exists(c.f, SourceOf(c.rec.idx))
TargetExists(c) == exists(c.f, TargetOf(c.rec.idx))
TargetIsSymlink(c) == StoredAt(c.f, TargetOf(c.rec.idx)).kind = "symlink"
\* what readlink returns for the target, unless it fails
ReadlinkFails(c) == c.rec.readlink = "Err"
ReadlinkIsSource(c) ==
    path_eq(StoredAt(c.f, TargetOf(c.rec.idx)).dest, SourceOf(c.rec.idx))

\* C10 as stated: the classification of a link is fixed by the table, each
\* row an equivalence.
C10_Original ==
    \A c \in Classified :
        /\ Is(c, "CONDITION NOT MET") = ~EligibleAt(c)
        /\ Is(c, "SOURCE MISSING") = (EligibleAt(c) /\ ~SourceExists(c))
        /\ Is(c, "NOT LINKED")
              = (EligibleAt(c) /\ SourceExists(c) /\ ~TargetExists(c))
        /\ Is(c, "OK")
              = (/\ EligibleAt(c) /\ TargetIsSymlink(c)
                 /\ ~ReadlinkFails(c) /\ ReadlinkIsSource(c))
        /\ Is(c, "WRONG TARGET")
              = (/\ EligibleAt(c) /\ TargetIsSymlink(c)
                 /\ ~ReadlinkFails(c) /\ ~ReadlinkIsSource(c))
        /\ Is(c, "SYMLINK ERROR") = (TargetIsSymlink(c) /\ ReadlinkFails(c))
        /\ Is(c, "EXISTS BUT NOT SYMLINK")
              = (TargetExists(c) /\ ~TargetIsSymlink(c))

\* the link is eligible, its source exists and its target resolves
Inspected(c) == EligibleAt(c) /\ SourceExists(c) /\ TargetExists(c)

\* C10, amended: status gives every link it processes exactly one
\* classification, the first row that applies: CONDITION NOT MET iff
\* eligibility fails; SOURCE MISSING iff eligible and the source does not
\* exist; NOT LINKED iff eligible, the source exists and the target does not
\* resolve (nothing is there, or a symbolic link whose destination is missing);
\* and, for a link that is eligible, whose source exists and whose target
\* resolves: SYMLINK ERROR iff the target is a symbolic link and readlink
\* fails, OK iff it is a symbolic link whose readlink result equals the
\* source, WRONG TARGET iff it is a symbolic link whose readlink result
\* differs, EXISTS BUT NOT SYMLINK iff it is not a symbolic link.  readlink is
\* called only in the last case's symbolic-link rows.
C10_FirstMatch ==
    \A c \in Classified :
        /\ c.rec.kind \in {"CONDITION NOT MET", "SOURCE MISSING", "NOT LINKED",
                           "OK", "WRONG TARGET", "SYMLINK ERROR",
                           "EXISTS BUT NOT SYMLINK"}
        /\ Is(c, "CONDITION NOT MET") = ~EligibleAt(c)
        /\ Is(c, "SOURCE MISSING") = (EligibleAt(c) /\ ~SourceExists(c))
        /\ Is(c, "NOT LINKED")
              = (EligibleAt(c) /\ SourceExists(c) /\ ~TargetExists(c))
        /\ Is(c, "SYMLINK ERROR")
              = (Inspected(c) /\ TargetIsSymlink(c) /\ ReadlinkFails(c))
        /\ Is(c, "OK")
              = (/\ Inspected(c) /\ TargetIsSymlink(c)
                 /\ ~ReadlinkFails(c) /\ ReadlinkIsSource(c))
        /\ Is(c, "WRONG TARGET")
              = (/\ Inspected(c) /\ TargetIsSymlink(c)
                 /\ ~ReadlinkFails(c) /\ ~ReadlinkIsSource(c))
        /\ Is(c, "EXISTS BUT NOT SYMLINK")
              = (Inspected(c) /\ ~TargetIsSymlink(c))
        /\ (c.rec.readlink # "none") = (Inspected(c) /\ TargetIsSymlink(c))

\* status has classified as NOT LINKED a link whose source exists and whose
\* target is a symbolic link to a missing path
C10_Witness ==
    \E c \in Classified :
        Is(c, "NOT LINKED") /\ TargetIsSymlink(c) /\ ~ReadlinkIsSource(c)

\* the if / if-not pair of action i
ActionConditionsHold(f, i) ==
    condition_is_met(f, home, config.actions[i].if_cond,
                     config.actions[i].if_not_cond,
                     get_current_os(host), hostname_arg(host))

\* C11: no step of a status run changes the filesystem or runs the body of an
\* action; status classifies every action it processes as READY TO RUN when
\* the action's conditions hold and as CONDITION NOT MET otherwise.
C11_StatusReadOnly ==
    [][op = "status" \/ op' = "status"
        => /\ fs' = fs
           /\ op = "status" =>
                 /\ LastRecord'.action = NotRun
                 /\ pc = "actions" =>
                       LastRecord'.kind
                          = IF ActionConditionsHold(fs, CurrentAction)
                            THEN "READY TO RUN" ELSE "CONDITION NOT MET"]_vars

\* a status run has returned with the filesystem as it found it, having
\* classified as READY TO RUN an action whose command would fail
C11_Witness ==
    \E r \in Runs :
        /\ r.op = "status" /\ r.result = "ok" /\ r.after = r.before
        /\ \E rec \in Range(r.out) :
              /\ rec.what = "actions" /\ rec.kind = "READY TO RUN"
              /\ ~ExitsZero(config.actions[rec.idx].run.command)
        /\ \E rec \in Range(r.out) : rec.what = "links"

\* the loop goes on after the entry it has processed: to the next link, else
\* to the first or next action, else the operation returns success
MovesOn ==
    LET nl == Len(get_effective_links(config))
        na == IF op = "remove" THEN 0 ELSE Len(get_effective_actions(config))
    IN IF pc = "links" /\ pos < nl
       THEN op' = op /\ pc' = "links" /\ pos' = pos + 1
       ELSE IF pc = "links" /\ na > 0
       THEN op' = op /\ pc' = "actions" /\ pos' = 1
       ELSE IF pc = "actions" /\ pos < na
       THEN op' = op /\ pc' = "actions" /\ pos' = pos + 1
       ELSE pc' = "idle" /\ Last(hist').op = op /\ Last(hist').result = "ok"

ReturnsWith(result) ==
    /\ pc' = "idle" /\ op' = "none" /\ out' = <<>>
    /\ Len(hist') = Len(hist) + 1
    /\ Last(hist').op = op
    /\ Last(hist').result = result
    /\ Last(hist').after = fs'
    /\ Front(Last(hist').out) = out

\* C13: when install processes an action whose conditions hold and whose
\* command is run and exits non-zero, install returns CommandError with the
\* action's name and the command's standard error; the step changes nothing in
\* the filesystem, so the links created earlier stay, and no later action is
\* processed.
C13_ActionFails ==
    [][(/\ op = "install" /\ pc = "actions"
        /\ ActionConditionsHold(fs, CurrentAction)
        /\ execute(config.actions[CurrentAction].run).ok
        /\ ~ExitsZero(config.actions[CurrentAction].run.command))
        => /\ ReturnsWith("CommandError")
           /\ fs' = fs
           /\ LastRecord'.idx = CurrentAction
           /\ LastRecord'.action
                 = [ran |-> config.actions[CurrentAction].name,
                    command |-> config.actions[CurrentAction].name,
                    message |-> StderrOf(config.actions[CurrentAction].run.command)]
      ]_vars

\* install has returned CommandError with the failing command's standard
\* error, after linking and before an action declared later
C13_Witness ==
    \E r \in Runs :
        /\ r.op = "install" /\ r.result = "CommandError"
        /\ Last(r.out).action.message = "oops"
        /\ Last(r.out).idx < Len(config.actions)
        /\ Active(config.actions[Len(config.actions)].profiles)
        /\ \E rec \in LinkRecords(r) :
              /\ rec.kind = "Linked"
              /\ IsLinkTo(r.after, TargetOf(rec.idx), SourceOf(rec.idx))

EffectiveLinks == { i \in LinkIds : Active(config.links[i].profiles) }

\* C14: after a remove that returns success, nothing of any kind is stored at
\* the target of any effective link, whatever was there before: a plain file,
\* a directory, a symbolic link, a symbolic link whose destination is missing.
C14_RemoveClearsTargets ==
    \A r \in Runs :
        r.op = "remove" /\ r.result = "ok" =>
            \A i \in EffectiveLinks : StoredAt(r.after, TargetOf(i)) = Absent

\* C15: when a remove has returned success, a remove that follows it returns
\* success, emits Ignored for every effective link and leaves the filesystem
\* as it found it.
C15_RemoveTwice ==
    \A k \in 1..(Len(hist) - 1) :
        (hist[k].op = "remove" /\ hist[k].result = "ok" /\ hist[k + 1].op = "remove")
        => /\ hist[k + 1].result = "ok"
           /\ hist[k + 1].after = hist[k + 1].before
           /\ Processed(hist[k + 1], "links") = EffectiveLinks
           /\ \A rec \in Range(hist[k + 1].out) :
                 rec.kind = "Ignored: does not exist"

\* a remove that removed a directory and its contents was followed by a
\* remove that ignored every link
C15_Witness ==
    /\ Len(hist) = 2
    /\ hist[1].op = "remove" /\ hist[1].result = "ok"
    /\ hist[2].op = "remove" /\ hist[2].result = "ok"
    /\ \E rec \in Range(hist[1].out) :
          /\ rec.kind = "Removed"
          /\ StoredAt(hist[1].before, TargetOf(rec.idx)).kind = "dir"
    /\ hist[2].out # <<>>

EffectiveActions == { i \in ActionIds : Active(config.actions[i].profiles) }
\* entry i is the p-th of the set in declared order
IsNth(S, i, p) == i \in S /\ Cardinality({ j \in S : j <= i }) = p
\* the filesystems differ at most at the node the path names and beneath it
ChangedOnlyAt(f, g, p) ==
    \A n \in Nodes : f[n] # g[n] => IsPrefix(Lstat(f, p), n)

\* C16: every step of an install run adds one record; the p-th step of the
\* link loop processes the p-th effective link in declared order and changes
\* the filesystem at that link's target only; the p-th step of the action loop
\* processes the p-th effective action, after every effective link has been
\* processed, and changes nothing in the filesystem.
C16_InstallOrder ==
    [][op = "install"
        => /\ Records' = Append(out, LastRecord')
           /\ LastRecord'.what = pc
           /\ pc = "links" =>
                 /\ IsNth(EffectiveLinks, LastRecord'.idx, pos)
                 /\ ChangedOnlyAt(fs, fs', TargetOf(LastRecord'.idx))
                 /\ \A rec \in Range(out) : rec.what = "links"
           /\ pc = "actions" =>
                 /\ IsNth(EffectiveActions, LastRecord'.idx, pos)
                 /\ fs' = fs
                 /\ { rec.idx : rec \in { x \in Range(out) : x.what = "links" } }
                       = EffectiveLinks]_vars

\* install is in its action loop after two links, the first of them linked,
\* and one action
C16_Witness ==
    /\ op = "install" /\ pc = "actions" /\ Len(out) = 3
    /\ out[1].what = "links" /\ out[1].kind = "Linked"
    /\ out[2].what = "links" /\ out[1].idx < out[2].idx
    /\ out[3].what = "actions"
    /\ fs # fs0

\* C17: when install processes an eligible link whose source does not exist,
\* the step changes nothing in the filesystem, whatever is at the target and
\* also with overwrite set, emits Ignored and install goes on with the next
\* entry; and no install returns SourceFileNotFound.
C17_MissingSource ==
    [][op = "install"
        => /\ pc' = "idle" => Last(hist').result # "SourceFileNotFound"
           /\ (pc = "links" /\ ConditionsHold(fs, CurrentLink)
                 /\ ~exists(fs, SourceOf(CurrentLink)))
                 => /\ fs' = fs
                    /\ LastRecord'.kind = "Ignored: was not found"
                    /\ LastRecord'.read = NoLine
                    /\ MovesOn]_vars

\* install with overwrite has just ignored a link whose source is missing and
\* whose target is a plain file, and is still running
C17_Witness ==
    /\ HasRecord /\ op = "install" /\ out # <<>> /\ config.overwrite
    /\ LastRecord.kind = "Ignored: was not found"
    /\ StoredAt(fs, TargetOf(LastRecord.idx)) = File

\* adjacent runs: an install, then a status, with the home directory known
InstallThenStatus(k) ==
    /\ home.some
    /\ hist[k].op = "install" /\ hist[k + 1].op = "status"
\* install linked link i and left it as status calls OK; by the time of the
\* status run the source no longer exists
LinkedThenMoved(k, i) ==
    /\ \E rec \in LinkRecords(hist[k]) : rec.idx = i /\ rec.kind = "Linked"
    /\ exists(hist[k].after, SourceOf(i))
    /\ IsLinkTo(hist[k].after, TargetOf(i), SourceOf(i))
    /\ ~exists(hist[k + 1].before, SourceOf(i))
    /\ ConditionsHold(hist[k + 1].before, i)
ClassifiedAs(r, i, kind) ==
    /\ \E rec \in LinkRecords(r) : rec.idx = i
    /\ \A rec \in LinkRecords(r) : rec.idx = i => rec.kind = kind
StatusReached(r, i) == r.result = "ok" \/ \E rec \in LinkRecords(r) : rec.idx = i

\* C18 as stated: a link that install linked, and whose source has since been
\* moved away, is classified WRONG TARGET by the next status.
C18_Original ==
    \A k \in 1..(Len(hist) - 1), i \in LinkIds :
        (InstallThenStatus(k) /\ LinkedThenMoved(k, i) /\ StatusReached(hist[k + 1], i))
        => ClassifiedAs(hist[k + 1], i, "WRONG TARGET")

\* C18, amended: a link that install linked, and whose source has since been
\* moved away so that the path no longer exists, is classified SOURCE MISSING
\* by the next status: the source is tested before the target is looked at.
C18_SourceMoved ==
    \A k \in 1..(Len(hist) - 1), i \in LinkIds :
        (InstallThenStatus(k) /\ LinkedThenMoved(k, i) /\ StatusReached(hist[k + 1], i))
        => ClassifiedAs(hist[k + 1], i, "SOURCE MISSING")

\* install linked ~/s, ~/s was moved away, and status has classified the link
C18_Witness ==
    /\ Len(hist) = 2
    /\ InstallThenStatus(1)
    /\ hist[2].before # hist[1].after
    /\ \E i \in LinkIds :
          /\ LinkedThenMoved(1, i)
          /\ IsLinkTo(hist[2].before, TargetOf(i), SourceOf(i))
          /\ \E rec \in LinkRecords(hist[2]) : rec.idx = i

\* both paths of link i resolve
Resolves(i) ==
    resolve(home, config.links[i].source).ok /\ resolve(home, config.links[i].target).ok

\* C19: when a step of install's link loop ends in a fatal error (the removal
\* of the existing target fails, the symlink cannot be created, a path does
\* not resolve, the prompt cannot be read), install returns the I/O error
\* there: the records end with that link's, so no later link is touched and no
\* action is run, and the filesystem is left as the step found it, except that
\* with overwrite set what was at the failing link's own target may already
\* have been removed.  Nothing done for the links before is undone.
C19_FailFast ==
    [][(InLinkLoop("install") /\ LastRecord'.kind = "Error")
        => /\ ReturnsWith("IoError")
           /\ LastRecord'.what = "links" /\ LastRecord'.idx = CurrentLink
           /\ LastRecord'.action = NotRun
           /\ \A rec \in Range(Last(hist').out) : rec.what = "links"
           /\ IF ~Resolves(CurrentLink) THEN fs' = fs
              ELSE \/ fs' = fs
                   \/ /\ config.overwrite
                      /\ exists(fs, TargetOf(CurrentLink))
                      /\ StoredAt(fs', TargetOf(CurrentLink)) = Absent
                      /\ ChangedOnlyAt(fs, fs', TargetOf(CurrentLink))]_vars

\* install has returned the I/O error of its second link: the link it created
\* first is still there, and the action after the links was not run
C19_Witness ==
    /\ hist # <<>> /\ pc = "idle"
    /\ Last(hist).op = "install" /\ Last(hist).result = "IoError"
    /\ Len(Last(hist).out) = 2
    /\ Last(hist).out[1].kind = "Linked"
    /\ Resolves(Last(hist).out[1].idx)
    /\ IsLinkTo(fs, TargetOf(Last(hist).out[1].idx), SourceOf(Last(hist).out[1].idx))
    /\ Last(hist).out[2].kind = "Error"
    /\ EffectiveActions # {}

\* the answers that let the symlink be made
Yes == {<<"y">>, <<"y", "e", "s">>}

\* C20: a step of install's link loop issues no prompt when ask is off; when
\* ask is on it creates the symlink only after reading a line that, trimmed
\* and lower-cased, is exactly y or yes; after any other line, the empty line
\* of end of input included, it creates no symlink (the target is left as it
\* was, or empty where overwrite had removed it), reports Skipped and install
\* goes on with the next entry instead of failing.
C20_AskConsent ==
    [][InLinkLoop("install")
        => /\ ~config.ask => LastRecord'.read = NoLine
           /\ (config.ask /\ LastRecord'.kind = "Linked")
                 => /\ LastRecord'.read.some
                    /\ to_lowercase(trim(LastRecord'.read.v)) \in Yes
           /\ (/\ LastRecord'.read.some
               /\ LastRecord'.read.v # ReadError
               /\ to_lowercase(trim(LastRecord'.read.v)) \notin Yes)
                 => /\ LastRecord'.kind = "Skipped"
                    /\ StoredAt(fs', TargetOf(CurrentLink))
                          \in {Absent, StoredAt(fs, TargetOf(CurrentLink))}
                    /\ ChangedOnlyAt(fs, fs', TargetOf(CurrentLink))
                    /\ ~IsLinkTo(fs', TargetOf(CurrentLink), SourceOf(CurrentLink))
                          \/ fs' = fs
                    /\ MovesOn]_vars

\* install with ask on has finished without error after the prompt of one
\* link met the end of input and the link was skipped, and the prompt of
\* another was answered " YES" and the link was made
C20_Witness ==
    /\ hist # <<>> /\ pc = "idle" /\ config.ask
    /\ Last(hist).op = "install" /\ Last(hist).result = "ok"
    /\ \E i, j \in 1..Len(Last(hist).out) :
          /\ Last(hist).out[i].read = Some(EndOfInput)
          /\ Last(hist).out[i].kind = "Skipped"
          /\ Last(hist).out[j].read = Some(<<" ", "Y", "E", "S", "\n">>)
          /\ Last(hist).out[j].kind = "Linked"

\* C21: on a host where the host name cannot be discovered, a condition that
\* carries a hostname matcher is not met, whatever names the matcher lists,
\* and neither is a link that has it as its `if`; a condition without a
\* hostname matcher evaluates as it does with no host name at all.
C21_FailedLookup ==
    (fn.kind = "host" /\ fn.done /\ ~host.lookup.ok)
        => IF fn.cond.hostname.tag # "none"
           THEN ~fn.met /\ ~fn.link_met
           ELSE fn.met = is_met(fs, home, fn.cond, get_current_os(host), NoHost)

\* C22: when a step of install's link loop ends with the prompt declined
\* (Skipped), what was at the link's target before the step, and everything
\* beneath it, is still there unchanged, with overwrite on as with overwrite
\* off, and install goes on with the next entry.
C22_DeclineKeepsTarget ==
    [][(InLinkLoop("install") /\ LastRecord'.kind = "Skipped")
        => /\ SameAt(fs, fs', TargetOf(CurrentLink))
           /\ MovesOn]_vars

\* path q is path p or lies beneath it, component by component
Beneath(p, q) ==
    is_absolute(p) = is_absolute(q) /\ IsPrefix(components(p), components(q))

\* no link's resolved source is, or lies beneath, a link's resolved target
NoSourceUnderTarget ==
    \A i, j \in LinkIds : ~Beneath(TargetOf(j), SourceOf(i))

\* C23 as stated: in a configuration where no link's resolved source is, or
\* lies beneath, a link's resolved target, no step of install or remove
\* changes the entry at a link's source or anything beneath it.
C23_Original ==
    [][(op \in {"install", "remove"} /\ NoSourceUnderTarget)
        => \A i \in LinkIds : SameAt(fs, fs', SourceOf(i))]_vars

\* with the symbolic links in their parent directories followed, the target
\* of link j is at or beneath the source of link i, or the source beneath
\* the target
Overlaps(f, j, i) ==
    LET t == Lstat(f, TargetOf(j))
        src == Lstat(f, SourceOf(i))
    IN t # NoNode /\ src # NoNode /\ (IsPrefix(src, t) \/ IsPrefix(t, src))

\* C23, amended: in a configuration where no link's resolved source is, or
\* lies beneath, a link's resolved target, a step of the link loop of install
\* or remove leaves the entry at every link's source, and everything beneath
\* it, as it was, unless the target it processes names, once the symbolic
\* links in its parent directories are followed, a place at or beneath that
\* source (or above it).
C23_SourcesKept ==
    [][(op \in {"install", "remove"} /\ pc = "links" /\ NoSourceUnderTarget)
        => \A i \in LinkIds :
              Overlaps(fs, CurrentLink, i) \/ SameAt(fs, fs', SourceOf(i))]_vars

\* a run has removed or replaced a target that was a symbolic link to its
\* link's source, a directory holding a file: the link is gone or made anew,
\* the directory and the file in it are as they were
C23_Witness ==
    /\ hist # <<>> /\ NoSourceUnderTarget
    /\ \E k \in 1..Len(hist) : \E i \in LinkIds :
          LET r == hist[k]
          IN /\ r.op \in {"install", "remove"} /\ r.result = "ok"
             /\ \E n \in 1..Len(r.out) :
                   r.out[n].what = "links" /\ r.out[n].idx = i
                       /\ r.out[n].kind \in {"Removed", "Linked"}
             /\ r.op = "install" => config.overwrite
             /\ IsLinkTo(r.before, TargetOf(i), SourceOf(i))
             /\ StoredAt(r.before, SourceOf(i)) = Dir
             /\ ~NothingBeneath(r.before, SourceOf(i))
             /\ r.op = "remove" => StoredAt(r.after, TargetOf(i)) = Absent
             /\ SameAt(r.before, r.after, SourceOf(i))
====
